---- MODULE Spec2Model ----
(***************************************************************************)
(* State-machine model of the AI Engineering Coach front end               *)
(* (src/src/App.tsx, src/src/services/geminiService.ts): accounts kept in  *)
(* localStorage, the assessment session, the progression update applied    *)
(* after an assessment, and the timed coding contest with its focus-loss   *)
(* counter.  Every event handler is one action; an async handler is split  *)
(* at its await into the part that runs at once and the continuation that  *)
(* runs, with the values its closure captured, when the ContentProvider    *)
(* answers.                                                                *)
(***************************************************************************)
EXTENDS Integers, Sequences, FiniteSets, TLC

VARIABLES
    users,                \* localStorage 'coach_users': email -> stored record or NULL
    currentEmail,         \* localStorage 'coach_current_user_email' ("" when removed)
    user,                 \* React state user: in-memory record or NULL
    userArr,              \* identity of the array object user.badges refers to
    difficulty,           \* React state difficulty
    appState,             \* React state appState
    isOnline,             \* React state isOnline
    isLoading,            \* React state isLoading
    questions,            \* React state questions
    currentQuestionIndex, \* React state currentQuestionIndex (0-based)
    answers,              \* React state answers: question id -> option, NoAnswer when absent
    timeLeft,             \* React state timeLeft
    results,              \* React state results: AssessmentResult or NULL
    pending,              \* requests to the ContentProvider still in flight, with their closures
    contests,             \* React state contests
    activeContest,        \* React state activeContest: a contest or NULL
    contestProblems,      \* React state contestProblems
    contestTimeLeft,      \* React state contestTimeLeft
    tabSwitches,          \* React state tabSwitches
    currentProblemIndex,  \* React state currentProblemIndex
    codingSubmissions,    \* React state codingSubmissions: problem id -> code text
    focusListeners,       \* TRUE while the visibilitychange/blur listeners are attached
    codeOutput,           \* React state codeOutput: {output, error} or NULL
    isRunningCode,        \* React state isRunningCode
    alerts                \* the alert() messages shown by the latest step, in order

accountVars == <<users, currentEmail, user, userArr, difficulty>>
testVars    == <<questions, currentQuestionIndex, answers, timeLeft, results>>
contestVars == <<contests, activeContest, contestProblems, contestTimeLeft,
                 tabSwitches, currentProblemIndex, codingSubmissions, focusListeners>>
ideVars == <<codeOutput, isRunningCode>>
vars == <<users, currentEmail, user, userArr, difficulty, appState, isOnline,
          isLoading, questions, currentQuestionIndex, answers, timeLeft, results,
          pending, contests, activeContest, contestProblems, contestTimeLeft,
          tabSwitches, currentProblemIndex, codingSubmissions, focusListeners,
          codeOutput, isRunningCode, alerts>>

(***************************************************************************)
(* Bounds of the model                                                     *)
(***************************************************************************)
MaxLen == 1         \* longest question batch in Spec and SpecOverlap
MaxLenTimer == 2    \* longest question batch in SpecTimer
MaxLenStats == 3    \* longest question batch in SpecStats
MaxTests == 2       \* assessments recorded per account in Spec and SpecOverlap
MaxTestsTimer == 1  \* assessments recorded in SpecTimer
MaxTestsStats == 3  \* assessments recorded in SpecStats
MaxPending == 2     \* ContentProvider requests in flight at once
MaxDuration == 1    \* longest contest, in minutes
MaxProblems == 2    \* longest problem list of a contest
MaxSwitches == 4    \* focus-loss events counted before the model stops delivering them
MaxLabels == 12     \* distinct weak-area labels the analysis can name in SpecWeak
MaxReply == 11      \* longest weakAreas list of one analysis in SpecWeak
MaxTestsWeak == 2   \* assessments recorded in SpecWeak
MaxTestsScores == 6 \* assessments recorded in SpecScores
MaxLenScore == 2    \* longest question batch, and most question ids, in SpecScore
MaxLenPct == 200    \* longest question batch in SpecPct

(***************************************************************************)
(* Program constants                                                       *)
(***************************************************************************)
QuestionTimeout == 120
ViolationThreshold == 3
LastScoresKept == 5
WeakAreasKept == 10
PerfectScore == 100

NULL == [null |-> TRUE]

BEGINNER == "Beginner"
ADVANCED == "Advanced"
EXPERT   == "Expert"
Difficulties == {BEGINNER, ADVANCED, EXPERT}

BeginnerChampion == "Beginner Champion"
AdvancedMaster   == "Advanced Master"
ExpertLegend     == "Expert Legend"

Emails == {"a@x", "b@x"}
Passwords == {"pw1", "pw2"}
Roles == {"STUDENT", "ADMIN"}
AdminAccessCode == "ADMIN123"
AdminCodes == {"ADMIN123", "guess"}

Options == {"A", "B", "C", "D"}
NoAnswer == "undefined"

(***************************************************************************)
(* JavaScript numbers.  The statistics are non-negative integers, NaN      *)
(* (0/0 of an empty batch) or, after a JSON round trip of NaN, null.       *)
(***************************************************************************)
NaN == -1
JsNull == -2

\* ToNumber: null converts to 0 in arithmetic, NaN stays NaN.
ToNumber(x) == IF x = JsNull THEN 0 ELSE x

\* Math.round(a / b) for integers a >= 0, b > 0: halves round up.
RoundDiv(a, b) == (2 * a + b) \div (2 * b)

\* JSON.stringify then JSON.parse of a number: NaN is written as null.
JsonNumber(x) == IF x = NaN THEN JsNull ELSE x

RECURSIVE SeqSum(_)
SeqSum(s) == IF s = <<>> THEN 0 ELSE Head(s) + SeqSum(Tail(s))

Take(s, n) == SubSeq(s, 1, IF Len(s) < n THEN Len(s) ELSE n)

Includes(s, x) == \E i \in 1..Len(s) : s[i] = x

RemoveAt(s, i) == SubSeq(s, 1, i - 1) \o SubSeq(s, i + 1, Len(s))

(***************************************************************************)
(* Accounts (interface UserStats) and attempts (interface TestAttempt).    *)
(* The display name, the date of an attempt and the subject lists are not  *)
(* modelled: no transition reads them.                                     *)
(***************************************************************************)
NewUser(email, password, role) ==
    [email |-> email, password |-> password, role |-> role,
     level |-> BEGINNER, badges |-> <<>>, totalTests |-> 0,
     highestScore |-> 0, averageScore |-> 0,
     beginnerAttempts |-> 0, advancedAttempts |-> 0, expertAttempts |-> 0,
     lastScores |-> <<>>, weakAreas |-> <<>>, placementReady |-> FALSE,
     attempts |-> <<>>]

\* JSON.parse(JSON.stringify(u)): what a later login reads back from the store.
JsonUser(u) ==
    [u EXCEPT !.highestScore = JsonNumber(@),
              !.averageScore = JsonNumber(@),
              !.lastScores = [i \in 1..Len(@) |-> JsonNumber(@[i])],
              !.attempts = [i \in 1..Len(@) |-> [@[i] EXCEPT !.score = JsonNumber(@)]]]

\* The pairs <<score, length>>, of all with a length up to 201, on which the
\* exact percentage ends in .5 and the double (score / length) * 100 falls a
\* rounding error below it, so that Math.round gives the lower neighbour.
HalvesBelow ==
    {<<23, 40>>, <<46, 80>>, <<69, 120>>, <<92, 160>>,
     <<29, 200>>, <<57, 200>>, <<113, 200>>, <<115, 200>>}

\* Math.round((score / questions.length) * 100); 0/0 is NaN.
Percentage(score, len) ==
    IF len = 0 THEN NaN
    ELSE IF <<score, len>> \in HalvesBelow THEN RoundDiv(score * 100, len) - 1
    ELSE RoundDiv(score * 100, len)

\* Math.max(user.highestScore, percentage)
JsMax(a, b) ==
    IF a = NaN \/ b = NaN THEN NaN
    ELSE IF ToNumber(a) >= ToNumber(b) THEN ToNumber(a) ELSE ToNumber(b)

\* A variant of NewAverage that truncates instead of rounding.
NewAverageTruncated(avg, oldTotal, pct) ==
    IF avg = NaN \/ pct = NaN THEN NaN
    ELSE (ToNumber(avg) * oldTotal + pct) \div (oldTotal + 1)

\* Math.round((user.averageScore * oldTotal + percentage) / newTotal)
NewAverage(avg, oldTotal, pct) ==
    IF avg = NaN \/ pct = NaN THEN NaN
    ELSE RoundDiv(ToNumber(avg) * oldTotal + pct, oldTotal + 1)

\* Array.from(new Set(s)): first occurrences, in order.
RECURSIVE Dedupe(_)
Dedupe(s) ==
    IF s = <<>> THEN <<>>
    ELSE LET init == Dedupe(SubSeq(s, 1, Len(s) - 1))
         IN IF Includes(init, s[Len(s)]) THEN init ELSE Append(init, s[Len(s)])

\* A variant of MergeWeakAreas without the slice.
MergeWeakAreasUncut(old, new) == Dedupe(old \o new)

\* Array.from(new Set([...user.weakAreas, ...analyzed.weakAreas])).slice(0, 10)
MergeWeakAreas(old, new) == Take(Dedupe(old \o new), WeakAreasKept)

\* A variant of PushScore that puts the new percentage behind the old ones.
PushScoreBehind(pct, lastScores) == Take(lastScores \o <<pct>>, LastScoresKept)

\* [percentage, ...user.lastScores].slice(0, 5)
PushScore(pct, lastScores) == Take(<<pct>> \o lastScores, LastScoresKept)

\* A variant of UpdateStats that numbers each attempt by the tier's counter.
UpdateStatsTierNumbered(u, diff, pct, total, weak) ==
    [u EXCEPT
        !.totalTests = u.totalTests + 1,
        !.highestScore = JsMax(u.highestScore, pct),
        !.lastScores = PushScore(pct, u.lastScores),
        !.averageScore = NewAverage(u.averageScore, u.totalTests, pct),
        !.beginnerAttempts = IF diff = BEGINNER THEN @ + 1 ELSE @,
        !.advancedAttempts = IF diff = ADVANCED THEN @ + 1 ELSE @,
        !.expertAttempts = IF diff = EXPERT THEN @ + 1 ELSE @,
        !.weakAreas = MergeWeakAreas(u.weakAreas, weak),
        !.attempts = <<[level |-> diff, score |-> pct, totalQuestions |-> total,
                        weakAreas |-> weak,
                        attemptNumber |->
                            1 + (IF diff = BEGINNER THEN u.beginnerAttempts
                                 ELSE IF diff = ADVANCED THEN u.advancedAttempts
                                 ELSE u.expertAttempts)]>> \o u.attempts]

\* The statistics part of handleSubmitTest: counters, scores, weak areas, attempt.
UpdateStats(u, diff, pct, total, weak) ==
    [u EXCEPT
        !.totalTests = u.totalTests + 1,
        !.highestScore = JsMax(u.highestScore, pct),
        !.lastScores = PushScore(pct, u.lastScores),
        !.averageScore = NewAverage(u.averageScore, u.totalTests, pct),
        !.beginnerAttempts = IF diff = BEGINNER THEN @ + 1 ELSE @,
        !.advancedAttempts = IF diff = ADVANCED THEN @ + 1 ELSE @,
        !.expertAttempts = IF diff = EXPERT THEN @ + 1 ELSE @,
        !.weakAreas = MergeWeakAreas(u.weakAreas, weak),
        !.attempts = <<[level |-> diff, score |-> pct, totalQuestions |-> total,
                        weakAreas |-> weak,
                        attemptNumber |-> u.totalTests + 1]>> \o u.attempts]

\* A variant of BadgeEarned that does not look at the badges already held.
BadgeEarnedAgain(badges, diff, pct) ==
    IF pct # PerfectScore THEN ""
    ELSE IF diff = BEGINNER THEN BeginnerChampion
    ELSE IF diff = ADVANCED THEN AdvancedMaster
    ELSE ExpertLegend

\* The badge the Progression Logic pushes for this assessment, "" when none.
BadgeEarned(badges, diff, pct) ==
    IF pct # PerfectScore THEN ""
    ELSE IF diff = BEGINNER /\ ~Includes(badges, BeginnerChampion) THEN BeginnerChampion
    ELSE IF diff = ADVANCED /\ ~Includes(badges, AdvancedMaster) THEN AdvancedMaster
    ELSE IF diff = EXPERT /\ ~Includes(badges, ExpertLegend) THEN ExpertLegend
    ELSE ""

\* A variant of Progress that grants the badge and leaves the level alone.
ProgressBadgeOnly(u, diff, pct) ==
    LET b == BadgeEarned(u.badges, diff, pct) IN
    IF b = "" THEN u
    ELSE [u EXCEPT !.badges = Append(@, b),
                   !.placementReady = IF b = ExpertLegend THEN TRUE ELSE @]

\* The Progression Logic block of handleSubmitTest.
Progress(u, diff, pct) ==
    LET b == BadgeEarned(u.badges, diff, pct) IN
    IF b = BeginnerChampion
        THEN [u EXCEPT !.badges = Append(@, b), !.level = ADVANCED]
    ELSE IF b = AdvancedMaster
        THEN [u EXCEPT !.badges = Append(@, b), !.level = EXPERT]
    ELSE IF b = ExpertLegend
        THEN [u EXCEPT !.badges = Append(@, b), !.placementReady = TRUE]
    ELSE u

\* updatedStats as handleSubmitTest hands it to setUser and to the store.
UpdatedStats(u, diff, pct, total, weak) ==
    Progress(UpdateStats(u, diff, pct, total, weak), diff, pct)

(***************************************************************************)
(* Question batches and ContentProvider replies                            *)
(***************************************************************************)
LongestBatch == IF MaxLen > MaxLenTimer THEN MaxLen ELSE MaxLenTimer
QuestionIds == 1..(LongestBatch + 1)

\* A batch of n questions with distinct ids; the correct option of each is "A".
Batch(n) == [i \in 1..n |-> [id |-> i, correctAnswer |-> "A"]]

\* What generateQuestions can hand back: any length from 0 (JSON.parse of "[]",
\* or the catch branch) up; Batches(lo, hi) are those of lo to hi questions.
Batches(lo, hi) == {Batch(n) : n \in lo..hi}

\* The options the modelled user clicks: the correct one and a wrong one.
Picks == {"A", "B"}

\* The weakAreas lists analyzeGaps can merge in from the provider's reply.
WeakAreaReplies == {<<>>, <<"w1">>}

\* Weak-area labels are free text of the provider; only their identity matters.
Label(i) == "w" \o ToString(i)

\* The weakAreas lists of SpecWeak: every run Label(a), .., Label(a + n - 1) of
\* up to MaxReply of the MaxLabels labels, and every label named twice over.
WeakAreaRuns ==
    {[k \in 1..n |-> Label(a + k - 1)] :
        <<a, n>> \in {an \in (1..MaxLabels) \X (0..MaxReply) :
                         an[1] + an[2] - 1 <= MaxLabels}}
    \cup {<<Label(a), Label(a)>> : a \in 1..MaxLabels}

NoAnswers == [q \in QuestionIds |-> NoAnswer]

\* What generateQuestions can hand back in SpecScore: the ids are strings of the
\* provider (two questions may carry the same one) and any option may be the
\* correct one.
AnyBatches ==
    UNION {[1..n -> [id : 1..MaxLenScore, correctAnswer : Picks]] : n \in 0..MaxLenScore}

\* The answer mappings a session over the batch qs can end with: an option or
\* nothing for each id of the batch, nothing for any other id.
AnswersFor(qs) ==
    {ans \in [QuestionIds -> Picks \cup {NoAnswer}] :
        \A id \in QuestionIds :
            (\A i \in 1..Len(qs) : qs[i].id # id) => ans[id] = NoAnswer}

\* A variant of Score that counts every question not answered wrongly.
RECURSIVE ScoreNotWrong(_, _)
ScoreNotWrong(qs, ans) ==
    IF qs = <<>> THEN 0
    ELSE (IF ans[Head(qs).id] \in {Head(qs).correctAnswer, NoAnswer} THEN 1 ELSE 0)
         + ScoreNotWrong(Tail(qs), ans)

\* questions.reduce((acc, q) => acc + (answers[q.id] === q.correctAnswer ? 1 : 0), 0)
RECURSIVE Score(_, _)
Score(qs, ans) ==
    IF qs = <<>> THEN 0
    ELSE (IF ans[Head(qs).id] = Head(qs).correctAnswer THEN 1 ELSE 0)
         + Score(Tail(qs), ans)

\* initialResults of handleSubmitTest (feedback: isCorrect and selectedAnswer per question).
InitialResults(qs, ans) ==
    [score |-> Score(qs, ans), total |-> Len(qs),
     feedback |-> [i \in 1..Len(qs) |->
                     [questionId |-> qs[i].id,
                      isCorrect |-> (ans[qs[i].id] = qs[i].correctAnswer),
                      selectedAnswer |-> ans[qs[i].id]]],
     weakAreas |-> <<>>]

(***************************************************************************)
(* Contests (interface Contest).  Times are in milliseconds, counted from  *)
(* the contest's startTime; duration is in minutes.                        *)
(***************************************************************************)
ProblemIds == 1..(MaxProblems + 1)
Problems(n) == [i \in 1..n |-> [id |-> i]]
NoSubmissions == [p \in ProblemIds |-> ""]

\* What handleCreateContest can have stored: any whole number of minutes from
\* the form (parseInt), any problem list from generateCodingProblems.
ContestPool ==
    {[id |-> "c", startTime |-> 0, duration |-> d, problems |-> Problems(n)] :
        d \in 0..MaxDuration, n \in 0..MaxProblems}

(***************************************************************************)
(* Initial states: the component's useState defaults, then the mount       *)
(* effect, which restores contests and the signed-in account from what     *)
(* localStorage holds.                                                     *)
(***************************************************************************)
\* The dashboard of the user's role.
HomeOf(u) == IF u # NULL /\ u.role = "ADMIN" THEN "admin-dashboard" ELSE "dashboard"

\* store: the stored accounts; email: the stored session pointer ("" when
\* absent); list: the stored contests.
Mounted(store, email, list) ==
    /\ users = store
    /\ currentEmail = email
    /\ contests = list
    /\ IF email # "" /\ store[email] # NULL
       THEN /\ user = store[email]
            /\ difficulty = store[email].level
            /\ appState = HomeOf(store[email])
       ELSE /\ user = NULL
            /\ difficulty = BEGINNER
            /\ appState = "auth"
    /\ userArr = 0
    /\ isLoading = FALSE
    /\ questions = <<>>
    /\ currentQuestionIndex = 0
    /\ answers = NoAnswers
    /\ timeLeft = QuestionTimeout
    /\ results = NULL
    /\ pending = <<>>
    /\ activeContest = NULL
    /\ contestProblems = <<>>
    /\ contestTimeLeft = 120 * 60
    /\ tabSwitches = 0
    /\ currentProblemIndex = 0
    /\ codingSubmissions = NoSubmissions
    /\ focusListeners = FALSE
    /\ codeOutput = NULL
    /\ isRunningCode = FALSE
    /\ alerts = <<>>

NoAccounts == [e \in Emails |-> NULL]

\* A browser with empty storage.
Init ==
    /\ isOnline \in BOOLEAN
    /\ Mounted(NoAccounts, "", <<>>)

\* Array identities: the badges array of a freshly parsed or created record is
\* an object no closure in flight refers to.
ArrsInFlight == {pending[i].arr : i \in {j \in 1..Len(pending) : pending[j].kind = "submit"}}
FreshArr == CHOOSE a \in 0..MaxPending :
                a \notin ArrsInFlight /\ \A b \in 0..MaxPending : b \notin ArrsInFlight => a <= b

(***************************************************************************)
(* handleAuth; the mode toggle of the form lets either branch be taken.    *)
(***************************************************************************)
Register(email, password, role, adminCode) ==
    /\ appState = "auth"
    /\ IF users[email] # NULL
       THEN /\ alerts' = <<"User already exists. Please login.">>
            /\ UNCHANGED <<accountVars, appState>>
       ELSE LET badCode == role = "ADMIN" /\ adminCode # AdminAccessCode
                finalRole == IF badCode THEN "STUDENT" ELSE role
                newUser == NewUser(email, password, finalRole)
            IN /\ alerts' = IF badCode
                            THEN <<"Invalid Admin Access Code. Defaulting to STUDENT role.">>
                            ELSE <<>>
               /\ users' = [users EXCEPT ![email] = JsonUser(newUser)]
               /\ currentEmail' = email
               /\ user' = newUser
               /\ userArr' = FreshArr
               /\ appState' = HomeOf(newUser)
               /\ UNCHANGED difficulty
    /\ UNCHANGED <<isOnline, ideVars, isLoading, testVars, pending, contestVars>>

\* A variant of Login without the password comparison.
LoginAnyPassword(email, password) ==
    /\ appState = "auth"
    /\ LET userData == users[email] IN
       IF userData # NULL
       THEN /\ currentEmail' = email
            /\ user' = userData
            /\ userArr' = FreshArr
            /\ difficulty' = userData.level
            /\ appState' = HomeOf(userData)
            /\ alerts' = <<>>
            /\ UNCHANGED users
       ELSE /\ alerts' = <<"User not found. Please register.">>
            /\ UNCHANGED <<accountVars, appState>>
    /\ UNCHANGED <<isOnline, ideVars, isLoading, testVars, pending, contestVars>>

Login(email, password) ==
    /\ appState = "auth"
    /\ LET userData == users[email] IN
       IF userData # NULL
       THEN IF userData.password = password
            THEN /\ currentEmail' = email
                 /\ user' = userData
                 /\ userArr' = FreshArr
                 /\ difficulty' = userData.level
                 /\ appState' = HomeOf(userData)
                 /\ alerts' = <<>>
                 /\ UNCHANGED users
            ELSE /\ alerts' = <<"Invalid credentials">>
                 /\ UNCHANGED <<accountVars, appState>>
       ELSE /\ alerts' = <<"User not found. Please register.">>
            /\ UNCHANGED <<accountVars, appState>>
    /\ UNCHANGED <<isOnline, ideVars, isLoading, testVars, pending, contestVars>>

\* handleLogout, offered on both dashboards (each rendered only with a user).
Logout ==
    /\ appState \in {"dashboard", "admin-dashboard"}
    /\ user # NULL
    /\ currentEmail' = ""
    /\ appState' = "auth"
    /\ user' = NULL
    /\ userArr' = 0
    /\ alerts' = <<>>
    /\ UNCHANGED <<users, difficulty, isOnline, ideVars, isLoading, testVars, pending, contestVars>>

(***************************************************************************)
(* Navigation buttons: <<view, target>> pairs that only call setAppState.  *)
(***************************************************************************)
InfoViews == {"study-notes", "detailed-info", "external-resources"}

NavTargets(view) ==
    IF view = "dashboard" /\ user # NULL
        THEN {"practice-ide", "subject-selection", "review"}
             \cup (IF user.placementReady THEN {"certificate"} ELSE {})
    ELSE IF view = "admin-dashboard" /\ user # NULL THEN {"admin-create-contest"}
    ELSE IF view = "admin-create-contest" THEN {"admin-dashboard"}
    ELSE IF view = "practice-ide" THEN {HomeOf(user)}
    ELSE IF view \in {"certificate", "review"} /\ user # NULL THEN {"dashboard"}
    ELSE IF view = "subject-selection" THEN {HomeOf(user), "test-intro"}
    ELSE IF view \in InfoViews /\ ~isLoading
        THEN {HomeOf(user), "subject-selection", "test-intro"}
    ELSE IF view = "test-intro" THEN {HomeOf(user), "subject-selection"}
    ELSE IF view = "results" /\ ~isLoading /\ results # NULL
        THEN {"dashboard", "subject-selection"}
             \cup (IF results.score # results.total THEN {"test-intro"} ELSE {})
    ELSE {}

Navigate(target) ==
    /\ target \in NavTargets(appState)
    /\ appState' = target
    /\ alerts' = <<>>
    /\ UNCHANGED <<accountVars, isOnline, ideVars, isLoading, testVars, pending, contestVars>>

\* Results view, "100% Mastery" panel: View Certificate / Move to next level.
MoveToNextLevel ==
    /\ appState = "results" /\ ~isLoading /\ results # NULL
    /\ results.score = results.total
    /\ IF difficulty = EXPERT
       THEN appState' = "certificate" /\ UNCHANGED difficulty
       ELSE /\ difficulty' = IF difficulty = BEGINNER THEN ADVANCED ELSE EXPERT
            /\ appState' = "test-intro"
    /\ alerts' = <<>>
    /\ UNCHANGED <<users, currentEmail, user, userArr, isOnline, ideVars, isLoading, testVars,
                   pending, contestVars>>

\* window 'online' / 'offline' events and checkConnection.
SetOnline(b) ==
    /\ isOnline # b
    /\ isOnline' = b
    /\ alerts' = <<>>
    /\ UNCHANGED <<accountVars, appState, isLoading, testVars, pending, contestVars,
                   ideVars>>

(***************************************************************************)
(* handleFetchNotes, handleFetchDetailedInfo, handleFetchExternalResources *)
(***************************************************************************)
FetchInfo(view) ==
    /\ appState = "subject-selection"
    /\ view \in InfoViews
    /\ Len(pending) < MaxPending
    /\ isLoading' = TRUE
    /\ appState' = view
    /\ pending' = Append(pending, [kind |-> "info"])
    /\ alerts' = <<>>
    /\ UNCHANGED <<accountVars, isOnline, ideVars, testVars, contestVars>>

\* The provider answers or fails: either way finally { setIsLoading(false) }.
FetchInfoDone(i) ==
    /\ i \in 1..Len(pending) /\ pending[i].kind = "info"
    /\ isLoading' = FALSE
    /\ pending' = RemoveAt(pending, i)
    /\ alerts' = <<>>
    /\ UNCHANGED <<accountVars, appState, isOnline, ideVars, testVars, contestVars>>

(***************************************************************************)
(* handleStartTest                                                         *)
(***************************************************************************)
OfflineAlert ==
    "You are currently offline. Please check your connection to start the assessment."

\* A variant of StartTest without the isOnline check.
StartTestAnyway ==
    /\ appState = "test-intro"
    /\ ~isLoading
    /\ Len(pending) < MaxPending
    /\ isLoading' = TRUE
    /\ pending' = Append(pending, [kind |-> "start"])
    /\ alerts' = <<>>
    /\ UNCHANGED <<accountVars, appState, isOnline, ideVars, testVars, contestVars>>

StartTest ==
    /\ appState = "test-intro"
    /\ ~isLoading
    /\ IF ~isOnline
       THEN /\ alerts' = <<OfflineAlert>>
            /\ UNCHANGED <<isLoading, pending>>
       ELSE /\ Len(pending) < MaxPending
            /\ isLoading' = TRUE
            /\ pending' = Append(pending, [kind |-> "start"])
            /\ alerts' = <<>>
    /\ UNCHANGED <<accountVars, appState, isOnline, ideVars, testVars, contestVars>>

\* A variant of StartTestResolve without setCurrentQuestionIndex(0),
\* setAnswers({}) and setTimeLeft(120).
StartTestResolveKeeping(i, q) ==
    /\ i \in 1..Len(pending) /\ pending[i].kind = "start"
    /\ questions' = q
    /\ appState' = "testing"
    /\ isLoading' = FALSE
    /\ pending' = RemoveAt(pending, i)
    /\ alerts' = <<>>
    /\ UNCHANGED <<accountVars, isOnline, ideVars, currentQuestionIndex, answers, timeLeft,
                   results, contestVars>>

\* generateQuestions resolved with batch q.
StartTestResolve(i, q) ==
    /\ i \in 1..Len(pending) /\ pending[i].kind = "start"
    /\ questions' = q
    /\ appState' = "testing"
    /\ currentQuestionIndex' = 0
    /\ answers' = NoAnswers
    /\ timeLeft' = QuestionTimeout
    /\ isLoading' = FALSE
    /\ pending' = RemoveAt(pending, i)
    /\ alerts' = <<>>
    /\ UNCHANGED <<accountVars, isOnline, ideVars, results, contestVars>>

\* generateQuestions rejected (the request itself failed): catch, finally.
StartTestReject(i) ==
    /\ i \in 1..Len(pending) /\ pending[i].kind = "start"
    /\ isLoading' = FALSE
    /\ pending' = RemoveAt(pending, i)
    /\ alerts' = <<>>
    /\ UNCHANGED <<accountVars, appState, isOnline, ideVars, testVars, contestVars>>

\* const currentQuestion = questions[currentQuestionIndex]
HasCurrentQuestion == currentQuestionIndex < Len(questions)
CurrentQuestion == questions[currentQuestionIndex + 1]

\* A variant of AnswerSelect that does not spread the previous mapping.
AnswerSelectAlone(answer) ==
    /\ appState = "testing" /\ HasCurrentQuestion
    /\ answers' = [NoAnswers EXCEPT ![CurrentQuestion.id] = answer]
    /\ alerts' = <<>>
    /\ UNCHANGED <<accountVars, appState, isOnline, ideVars, isLoading, questions,
                   currentQuestionIndex, timeLeft, results, pending, contestVars>>

\* handleAnswerSelect
AnswerSelect(answer) ==
    /\ appState = "testing" /\ HasCurrentQuestion
    /\ answers' = [answers EXCEPT ![CurrentQuestion.id] = answer]
    /\ alerts' = <<>>
    /\ UNCHANGED <<accountVars, appState, isOnline, ideVars, isLoading, questions,
                   currentQuestionIndex, timeLeft, results, pending, contestVars>>

(***************************************************************************)
(* handleSubmitTest.  CompleteSubmit is the part after the await, run with *)
(* the closure c of the call: the user object, difficulty and results that *)
(* the render of the call held.                                            *)
(***************************************************************************)
SubmitClosure ==
    [kind |-> "submit", user |-> user, arr |-> userArr, difficulty |-> difficulty,
     results |-> InitialResults(questions, answers),
     percentage |-> Percentage(Score(questions, answers), Len(questions))]

\* const savedUsers = localStorage.getItem('coach_users'); if (savedUsers) ...
StoreExists == \E e \in Emails : users[e] # NULL

\* updatedStats.badges.push(..) writes to the array object itself: every closure
\* still in flight whose user object holds that same array sees the new badge.
PushSeen(reqs, arr, badge) ==
    [k \in 1..Len(reqs) |->
        IF reqs[k].kind = "submit" /\ reqs[k].arr = arr /\ reqs[k].user # NULL /\ badge # ""
        THEN [reqs[k] EXCEPT !.user.badges = Append(@, badge)]
        ELSE reqs[k]]

\* try { analyzed = await analyzeGaps(..); setResults(analyzed); if (user) {..} } finally {..}
CompleteSubmit(c, weak, rest) ==
    /\ results' = [c.results EXCEPT !.weakAreas = weak]
    /\ isLoading' = FALSE
    /\ IF c.user # NULL
       THEN LET updatedStats == UpdatedStats(c.user, c.difficulty, c.percentage,
                                             c.results.total, weak)
                badge == BadgeEarned(c.user.badges, c.difficulty, c.percentage)
            IN /\ user' = updatedStats
               /\ userArr' = c.arr
               /\ users' = IF StoreExists
                           THEN [users EXCEPT ![c.user.email] = JsonUser(updatedStats)]
                           ELSE users
               /\ pending' = PushSeen(rest, c.arr, badge)
       ELSE /\ pending' = rest
            /\ UNCHANGED <<users, user, userArr>>

\* The synchronous part of handleSubmitTest, then the await.  analyzeGaps
\* returns without a request when score === total, so the continuation runs
\* before any other event; otherwise the request is in flight.
HandleSubmitTest ==
    /\ appState' = "results"
    /\ IF SubmitClosure.results.score = SubmitClosure.results.total
       THEN CompleteSubmit(SubmitClosure, <<>>, pending)
       ELSE /\ Len(pending) < MaxPending
            /\ isLoading' = TRUE
            /\ pending' = Append(pending, SubmitClosure)
            /\ UNCHANGED <<users, user, userArr, results>>
    /\ alerts' = <<>>
    /\ UNCHANGED <<currentEmail, difficulty, isOnline, ideVars, questions, currentQuestionIndex,
                   answers, timeLeft, contestVars>>

\* analyzeGaps resolved: the provider's weakAreas, or none when its reply does not parse.
SubmitTestResolve(i, weak) ==
    /\ i \in 1..Len(pending) /\ pending[i].kind = "submit"
    /\ CompleteSubmit(pending[i], weak, RemoveAt(pending, i))
    /\ alerts' = <<>>
    /\ UNCHANGED <<currentEmail, difficulty, appState, isOnline, ideVars, questions,
                   currentQuestionIndex, answers, timeLeft, contestVars>>

\* analyzeGaps rejected: catch { setResults(initialResults) } finally { setIsLoading(false) }
SubmitTestReject(i) ==
    /\ i \in 1..Len(pending) /\ pending[i].kind = "submit"
    /\ results' = pending[i].results
    /\ isLoading' = FALSE
    /\ pending' = RemoveAt(pending, i)
    /\ alerts' = <<>>
    /\ UNCHANGED <<accountVars, appState, isOnline, ideVars, questions, currentQuestionIndex,
                   answers, timeLeft, contestVars>>

\* The account update of handleSubmitTest taken by itself: the signed-in
\* account after an assessment of total questions, score of them answered
\* correctly, taken at tier diff, with the weak areas the analysis returned.
RecordAssessment(diff, score, total, weak) ==
    /\ user # NULL
    /\ LET updatedStats == UpdatedStats(user, diff, Percentage(score, total), total, weak)
       IN /\ user' = updatedStats
          /\ users' = [users EXCEPT ![user.email] = JsonUser(updatedStats)]
    /\ alerts' = <<>>
    /\ UNCHANGED <<currentEmail, userArr, difficulty, appState, isOnline, ideVars, isLoading,
                   testVars, pending, contestVars>>

(***************************************************************************)
(* handleNextQuestion, from the button and from the countdown effect.      *)
(***************************************************************************)
\* A variant of HandleNextQuestion without setTimeLeft(120).
HandleNextQuestionNoReset ==
    IF currentQuestionIndex < Len(questions) - 1
    THEN /\ currentQuestionIndex' = currentQuestionIndex + 1
         /\ alerts' = <<>>
         /\ UNCHANGED <<accountVars, appState, isOnline, ideVars, isLoading, questions, answers,
                        timeLeft, results, pending, contestVars>>
    ELSE HandleSubmitTest

HandleNextQuestion ==
    IF currentQuestionIndex < Len(questions) - 1
    THEN /\ currentQuestionIndex' = currentQuestionIndex + 1
         /\ timeLeft' = QuestionTimeout
         /\ alerts' = <<>>
         /\ UNCHANGED <<accountVars, appState, isOnline, ideVars, isLoading, questions, answers,
                        results, pending, contestVars>>
    ELSE HandleSubmitTest

\* The Next Question / Finish Test button, disabled until the question is answered.
NextQuestion ==
    /\ appState = "testing" /\ HasCurrentQuestion
    /\ answers[CurrentQuestion.id] # NoAnswer
    /\ HandleNextQuestion

\* The condition under which the timer effect keeps its interval: set by the
\* effect of a render in which it holds, cleared by the cleanup at the next
\* change of appState or timeLeft.
AssessmentInterval == appState = "testing" /\ timeLeft > 0

\* A variant of Tick whose interval survives the testing state.
TickAnywhere ==
    /\ timeLeft > 0 /\ appState \in {"testing", "results"}
    /\ timeLeft' = timeLeft - 1
    /\ alerts' = <<>>
    /\ UNCHANGED <<accountVars, appState, isOnline, ideVars, isLoading, questions,
                   currentQuestionIndex, answers, results, pending, contestVars>>

\* Timer effect, interval branch: setTimeLeft(prev => prev - 1) once a second.
Tick ==
    /\ appState = "testing" /\ timeLeft > 0
    /\ timeLeft' = timeLeft - 1
    /\ alerts' = <<>>
    /\ UNCHANGED <<accountVars, appState, isOnline, ideVars, isLoading, questions,
                   currentQuestionIndex, answers, results, pending, contestVars>>

\* A variant of TimeUp that waits for a question to be on screen.
TimeUpOnQuestion ==
    /\ appState = "testing" /\ timeLeft = 0
    /\ HasCurrentQuestion
    /\ HandleNextQuestion

\* Timer effect, expiry branch: timeLeft === 0 while testing.
TimeUp ==
    /\ appState = "testing" /\ timeLeft = 0
    /\ HandleNextQuestion

(***************************************************************************)
(* handleJoinContest.  elapsed is now.getTime() - start.getTime().         *)
(***************************************************************************)
MsPerMinute == 60000
MsPerSecond == 1000

\* Math.round((contest.duration - diff) * 60), diff = elapsed / 1000 / 60.  The
\* exact value is remaining / 1000 seconds.  Off a half second the double
\* arithmetic rounds as the exact value does.  On an exact half second the
\* computed product is the half or falls a rounding error below it, as the
\* operands decide, and Math.round gives the upper or the lower neighbour.
\* A variant of Countdowns that truncates to whole seconds.
CountdownsFloored(duration, elapsed) ==
    {(duration * MsPerMinute - elapsed) \div MsPerSecond}

Countdowns(duration, elapsed) ==
    LET remaining == duration * MsPerMinute - elapsed IN
    IF remaining % MsPerSecond = MsPerSecond \div 2
    THEN {remaining \div MsPerSecond, remaining \div MsPerSecond + 1}
    ELSE {RoundDiv(remaining, MsPerSecond)}

NotStartedAlert == "Contest hasn't started yet. Starts at ${contest.startTime}"
EndedAlert == "Contest has already ended."
SubmittedAlert == "Contest submitted successfully! Your results will be analyzed."

\* The instants at which the modelled user presses Join: the quarter seconds
\* of the two seconds after the start and of the two seconds before the end,
\* the quarter second and the millisecond on either side of both ends, and
\* the middle of the window.
JoinInstants(contest) ==
    LET end == contest.duration * MsPerMinute IN
    {250 * k : k \in -1..8} \cup {end - 250 * k : k \in -1..8}
    \cup {-1, 1, end - 1, end + 1, end \div 2}

\* A variant of RejectJoin that also clears the violation counter.
RejectJoinClearing(message) ==
    /\ alerts' = <<message>>
    /\ tabSwitches' = 0
    /\ UNCHANGED <<appState, contests, activeContest, contestProblems, contestTimeLeft,
                   currentProblemIndex, codingSubmissions, focusListeners>>

\* alert(..); return;  -- the two early returns of handleJoinContest.
RejectJoin(message) ==
    /\ alerts' = <<message>>
    /\ UNCHANGED <<appState, contestVars>>

JoinContest(contest, elapsed) ==
    /\ appState = "dashboard" /\ user # NULL
    /\ Includes(contests, contest)
    /\ IF elapsed < 0
       THEN RejectJoin(NotStartedAlert)
       ELSE IF elapsed > contest.duration * MsPerMinute
       THEN RejectJoin(EndedAlert)
       ELSE /\ activeContest' = contest
            /\ contestProblems' = contest.problems
            /\ contestTimeLeft' \in Countdowns(contest.duration, elapsed)
            /\ appState' = "contest-active"
            /\ tabSwitches' = 0
            /\ currentProblemIndex' = 0
            /\ alerts' = <<>>
            /\ UNCHANGED <<contests, codingSubmissions, focusListeners>>
    /\ UNCHANGED <<accountVars, isOnline, ideVars, isLoading, testVars, pending>>

\* handleSubmitContest: the Submit Contest button of the contest view.
SubmitContest ==
    /\ appState = "contest-active" /\ activeContest # NULL
    /\ appState' = "dashboard"
    /\ alerts' = <<SubmittedAlert>>
    /\ UNCHANGED <<accountVars, isOnline, ideVars, isLoading, testVars, pending, contestVars>>

\* The condition under which the contest timer effect keeps its interval.
ContestInterval == appState = "contest-active" /\ contestTimeLeft > 0

\* A variant of ContestTick whose interval is set only above one second.
ContestTickAboveOne ==
    /\ appState = "contest-active" /\ contestTimeLeft > 1
    /\ contestTimeLeft' = contestTimeLeft - 1
    /\ alerts' = <<>>
    /\ UNCHANGED <<accountVars, appState, isOnline, ideVars, isLoading, testVars, pending,
                   contests, activeContest, contestProblems, tabSwitches,
                   currentProblemIndex, codingSubmissions, focusListeners>>

\* Contest timer effect, interval branch.
ContestTick ==
    /\ appState = "contest-active" /\ contestTimeLeft > 0
    /\ contestTimeLeft' = contestTimeLeft - 1
    /\ alerts' = <<>>
    /\ UNCHANGED <<accountVars, appState, isOnline, ideVars, isLoading, testVars, pending,
                   contests, activeContest, contestProblems, tabSwitches,
                   currentProblemIndex, codingSubmissions, focusListeners>>

\* Contest timer effect, expiry branch: handleSubmitContest().
ContestTimeUp ==
    /\ appState = "contest-active" /\ contestTimeLeft = 0
    /\ appState' = "dashboard"
    /\ alerts' = <<SubmittedAlert>>
    /\ UNCHANGED <<accountVars, isOnline, ideVars, isLoading, testVars, pending, contestVars>>

(***************************************************************************)
(* Anti-cheating effect.  The listeners are attached by the effect that    *)
(* runs after a render with appState 'contest-active' and removed by its   *)
(* cleanup after a render with another appState; a browser event that      *)
(* arrives in between is still delivered to them.                          *)
(***************************************************************************)
AttachListeners ==
    /\ appState = "contest-active" /\ ~focusListeners
    /\ focusListeners' = TRUE
    /\ alerts' = <<>>
    /\ UNCHANGED <<accountVars, appState, isOnline, ideVars, isLoading, testVars, pending,
                   contests, activeContest, contestProblems, contestTimeLeft,
                   tabSwitches, currentProblemIndex, codingSubmissions>>

DetachListeners ==
    /\ appState # "contest-active" /\ focusListeners
    /\ focusListeners' = FALSE
    /\ alerts' = <<>>
    /\ UNCHANGED <<accountVars, appState, isOnline, ideVars, isLoading, testVars, pending,
                   contests, activeContest, contestProblems, contestTimeLeft,
                   tabSwitches, currentProblemIndex, codingSubmissions>>

\* `Warning: ... ${3 - newVal} chances left.`
ChancesLeft(n) == IF n = 2 THEN "2 chances left." ELSE "1 chances left."
TabWarning(n) == <<"Warning: Tab switch detected.", ChancesLeft(n)>>
BlurWarning(n) == <<"Warning: Screen off/Tab switch detected.", ChancesLeft(n)>>
TabMaximum == "Maximum tab switches reached. Contest submitted automatically."
BlurMaximum == "Maximum screen off/tab switch reached. Contest submitted automatically."

\* A variant of CountSwitch that submits one strike early.
CountSwitchEarly(maximum, warning) ==
    LET newVal == tabSwitches + 1 IN
    /\ tabSwitches' = newVal
    /\ IF newVal >= ViolationThreshold - 1
       THEN /\ appState' = "dashboard"
            /\ alerts' = <<maximum, SubmittedAlert>>
       ELSE /\ alerts' = warning
            /\ UNCHANGED appState

\* The setTabSwitches updater of handleVisibilityChange and of handleBlur:
\* count, then handleSubmitContest() at the threshold or a warning below it.
CountSwitch(maximum, warning) ==
    LET newVal == tabSwitches + 1 IN
    /\ tabSwitches' = newVal
    /\ IF newVal >= ViolationThreshold
       THEN /\ appState' = "dashboard"
            /\ alerts' = <<maximum, SubmittedAlert>>
       ELSE /\ alerts' = warning
            /\ UNCHANGED appState

\* document 'visibilitychange': counted only when document.hidden.
VisibilityChange(hidden) ==
    /\ focusListeners
    /\ tabSwitches < MaxSwitches
    /\ IF hidden
       THEN CountSwitch(TabMaximum, TabWarning(ViolationThreshold - (tabSwitches + 1)))
       ELSE alerts' = <<>> /\ UNCHANGED <<appState, tabSwitches>>
    /\ UNCHANGED <<accountVars, isOnline, ideVars, isLoading, testVars, pending,
                   contests, activeContest, contestProblems, contestTimeLeft,
                   currentProblemIndex, codingSubmissions, focusListeners>>

\* window 'blur'
Blur ==
    /\ focusListeners
    /\ tabSwitches < MaxSwitches
    /\ CountSwitch(BlurMaximum, BlurWarning(ViolationThreshold - (tabSwitches + 1)))
    /\ UNCHANGED <<accountVars, isOnline, ideVars, isLoading, testVars, pending,
                   contests, activeContest, contestProblems, contestTimeLeft,
                   currentProblemIndex, codingSubmissions, focusListeners>>

\* Previous Problem / Next Problem buttons of the contest view.
PreviousProblem ==
    /\ appState = "contest-active" /\ activeContest # NULL
    /\ currentProblemIndex # 0
    /\ currentProblemIndex' = currentProblemIndex - 1
    /\ alerts' = <<>>
    /\ UNCHANGED <<accountVars, appState, isOnline, ideVars, isLoading, testVars, pending,
                   contests, activeContest, contestProblems, contestTimeLeft,
                   tabSwitches, codingSubmissions, focusListeners>>

NextProblem ==
    /\ appState = "contest-active" /\ activeContest # NULL
    /\ currentProblemIndex # Len(contestProblems) - 1
    /\ currentProblemIndex < MaxProblems
    /\ currentProblemIndex' = currentProblemIndex + 1
    /\ alerts' = <<>>
    /\ UNCHANGED <<accountVars, appState, isOnline, ideVars, isLoading, testVars, pending,
                   contests, activeContest, contestProblems, contestTimeLeft,
                   tabSwitches, codingSubmissions, focusListeners>>

(***************************************************************************)
(* handleRunCode (Run Code button of the contest view and of the practice  *)
(* IDE) and the editor's onChange of the contest view.                     *)
(***************************************************************************)
NoError == "undefined"
OfflineError == "Offline: Internet connection required for AI code analysis."
OfflineOutput == [output |-> "", error |-> OfflineError]
FailedOutput == [output |-> "", error |-> "Execution failed"]

\* What runCode resolves with: the provider's {output, error?}, or the
\* fallback of its catch branch.
RunReplies ==
    {[output |-> "42", error |-> NoError],
     [output |-> "", error |-> "SyntaxError"],
     [output |-> "", error |-> "Failed to parse execution result"]}

\* A variant of RunCode without the isOnline check.
RunCodeAnyway ==
    /\ \/ appState = "contest-active" /\ activeContest # NULL
       \/ appState = "practice-ide"
    /\ ~isRunningCode
    /\ Len(pending) < MaxPending
    /\ isRunningCode' = TRUE
    /\ codeOutput' = NULL
    /\ pending' = Append(pending, [kind |-> "run"])
    /\ alerts' = <<>>
    /\ UNCHANGED <<accountVars, appState, isOnline, isLoading, testVars, contestVars>>

\* The synchronous part of handleRunCode, then the await.
RunCode ==
    /\ \/ appState = "contest-active" /\ activeContest # NULL
       \/ appState = "practice-ide"
    /\ ~isRunningCode
    /\ IF ~isOnline
       THEN /\ codeOutput' = OfflineOutput
            /\ UNCHANGED <<isRunningCode, pending>>
       ELSE /\ Len(pending) < MaxPending
            /\ isRunningCode' = TRUE
            /\ codeOutput' = NULL
            /\ pending' = Append(pending, [kind |-> "run"])
    /\ alerts' = <<>>
    /\ UNCHANGED <<accountVars, appState, isOnline, isLoading, testVars, contestVars>>

\* runCode resolved: setCodeOutput(result); finally setIsRunningCode(false).
RunCodeResolve(i, result) ==
    /\ i \in 1..Len(pending) /\ pending[i].kind = "run"
    /\ codeOutput' = result
    /\ isRunningCode' = FALSE
    /\ pending' = RemoveAt(pending, i)
    /\ alerts' = <<>>
    /\ UNCHANGED <<accountVars, appState, isOnline, isLoading, testVars, contestVars>>

\* runCode rejected: catch, finally.
RunCodeReject(i) ==
    /\ i \in 1..Len(pending) /\ pending[i].kind = "run"
    /\ codeOutput' = FailedOutput
    /\ isRunningCode' = FALSE
    /\ pending' = RemoveAt(pending, i)
    /\ alerts' = <<>>
    /\ UNCHANGED <<accountVars, appState, isOnline, isLoading, testVars, contestVars>>

\* The texts the modelled user leaves in the editor ('' after deleting all).
CodeTexts == {"", "code"}

\* Editor onChange: setCodingSubmissions(prev => ({...prev, [problem.id]: val || ''}))
EditCode(val) ==
    /\ appState = "contest-active" /\ activeContest # NULL
    /\ currentProblemIndex < Len(contestProblems)
    /\ codingSubmissions' =
          [codingSubmissions EXCEPT ![contestProblems[currentProblemIndex + 1].id] = val]
    /\ alerts' = <<>>
    /\ UNCHANGED <<accountVars, appState, isOnline, ideVars, isLoading, testVars, pending,
                   contests, activeContest, contestProblems, contestTimeLeft,
                   tabSwitches, currentProblemIndex, focusListeners>>

(***************************************************************************)
(* Specifications                                                          *)
(***************************************************************************)
\* The modelled user stops taking assessments once the account records k of them.
Quota(k) == user # NULL => user.totalTests < k

Views == {"dashboard", "admin-dashboard", "admin-create-contest", "practice-ide",
          "review", "certificate", "subject-selection", "test-intro"}

\* Accounts, assessments and progression, from a browser with empty storage:
\* two people share the browser and take their assessments one request at a time.
Next ==
    \/ \E e \in Emails, r \in Roles, code \in AdminCodes : Register(e, "pw1", r, code)
    \/ \E e \in Emails, p \in Passwords : Login(e, p)
    \/ Logout
    \/ \E target \in Views : Navigate(target)
    \/ MoveToNextLevel
    \/ Quota(MaxTests) /\ StartTest
    \/ \E i \in 1..MaxPending, q \in Batches(1, MaxLen) : StartTestResolve(i, q)
    \/ \E i \in 1..MaxPending : StartTestReject(i)
    \/ \E answer \in Picks : AnswerSelect(answer)
    \/ Quota(MaxTests) /\ NextQuestion
    \/ \E i \in 1..MaxPending, weak \in WeakAreaReplies : SubmitTestResolve(i, weak)
    \/ \E i \in 1..MaxPending : SubmitTestReject(i)

Spec == Init /\ [][Next]_vars

\* The stored record of a student who has taken no assessment.
Newcomer == JsonUser(NewUser("a@x", "pw1", "STUDENT"))

\* Overlapping requests: one student, signed in by the mount effect, who opens
\* the study material while other requests are in flight, and signs out and in.
InitOverlap ==
    /\ isOnline = TRUE
    /\ Mounted([NoAccounts EXCEPT !["a@x"] = Newcomer], "a@x", <<>>)

NextOverlap ==
    \/ \E e \in Emails, p \in Passwords : Login(e, p)
    \/ Logout
    \/ \E target \in Views : Navigate(target)
    \/ MoveToNextLevel
    \/ \E view \in InfoViews : FetchInfo(view)
    \/ \E i \in 1..MaxPending : FetchInfoDone(i)
    \/ Quota(MaxTests) /\ StartTest
    \/ \E i \in 1..MaxPending, q \in Batches(1, MaxLen) : StartTestResolve(i, q)
    \/ \E i \in 1..MaxPending : StartTestReject(i)
    \/ \E answer \in Picks : AnswerSelect(answer)
    \/ Quota(MaxTests) /\ NextQuestion
    \/ \E i \in 1..MaxPending, weak \in WeakAreaReplies : SubmitTestResolve(i, weak)
    \/ \E i \in 1..MaxPending : SubmitTestReject(i)

SpecOverlap == InitOverlap /\ [][NextOverlap]_vars

\* The per-question countdown: one student, any batch the provider can return
\* (the empty one included), the connection coming and going.
InitTimer ==
    /\ isOnline \in BOOLEAN
    /\ Mounted([NoAccounts EXCEPT !["a@x"] = Newcomer], "a@x", <<>>)

NextTimer ==
    \/ \E target \in Views : Navigate(target)
    \/ MoveToNextLevel
    \/ \E b \in BOOLEAN : SetOnline(b)
    \/ Quota(MaxTestsTimer) /\ StartTest
    \/ \E i \in 1..MaxPending, q \in Batches(0, MaxLenTimer) : StartTestResolve(i, q)
    \/ \E i \in 1..MaxPending : StartTestReject(i)
    \/ \E answer \in Picks : AnswerSelect(answer)
    \/ Quota(MaxTestsTimer) /\ NextQuestion
    \/ Tick
    \/ Quota(MaxTestsTimer) /\ TimeUp
    \/ \E i \in 1..MaxPending, weak \in WeakAreaReplies : SubmitTestResolve(i, weak)
    \/ \E i \in 1..MaxPending : SubmitTestReject(i)

SpecTimer == InitTimer /\ [][NextTimer]_vars

\* SpecTimer with the scheduling the browser and the provider give: the
\* interval fires while it is set, the expiry effect runs after the render with
\* timeLeft 0, and a request in flight is answered or fails.
FairTimer ==
    /\ WF_vars(Tick)
    /\ WF_vars(Quota(MaxTestsTimer) /\ TimeUp)
    /\ WF_vars(\E i \in 1..MaxPending :
                  \/ SubmitTestReject(i)
                  \/ \E weak \in WeakAreaReplies : SubmitTestResolve(i, weak))

SpecTimerFair == SpecTimer /\ FairTimer

\* The account statistics by themselves: one student and every sequence of
\* assessment outcomes, of batches of 0 to MaxLenStats questions, recorded at
\* the difficulty the app is in.
InitStats ==
    /\ isOnline = TRUE
    /\ Mounted([NoAccounts EXCEPT !["a@x"] = Newcomer], "a@x", <<>>)

NextStats ==
    \E total \in 0..MaxLenStats :
        \E score \in 0..total :
            \E weak \in (IF score = total THEN {<<>>} ELSE WeakAreaReplies) :
                Quota(MaxTestsStats) /\ RecordAssessment(difficulty, score, total, weak)

SpecStats == InitStats /\ [][NextStats]_vars

\* The weak-area list by itself: one student and every sequence of failed
\* one-question assessments whose analysis names the labels of WeakAreaRuns.
InitWeak ==
    /\ isOnline = TRUE
    /\ Mounted([NoAccounts EXCEPT !["a@x"] = Newcomer], "a@x", <<>>)

NextWeak ==
    \E weak \in WeakAreaRuns :
        Quota(MaxTestsWeak) /\ RecordAssessment(difficulty, 0, 1, weak)

SpecWeak == InitWeak /\ [][NextWeak]_vars

\* The score history by itself: one student and every sequence of up to
\* MaxTestsScores outcomes of an empty batch or a batch of two questions.
InitScores ==
    /\ isOnline = TRUE
    /\ Mounted([NoAccounts EXCEPT !["a@x"] = Newcomer], "a@x", <<>>)

NextScores ==
    \E total \in {0, 2} :
        \E score \in 0..total :
            Quota(MaxTestsScores) /\ RecordAssessment(difficulty, score, total, <<>>)

SpecScores == InitScores /\ [][NextScores]_vars

\* Scoring by itself: a signed-in student at the end of a session over any
\* batch of AnyBatches with any answer mapping, then handleSubmitTest.
InitScore ==
    /\ isOnline = TRUE
    /\ users = [NoAccounts EXCEPT !["a@x"] = Newcomer]
    /\ currentEmail = "a@x"
    /\ user = Newcomer
    /\ userArr = 0
    /\ difficulty = BEGINNER
    /\ appState = "testing"
    /\ isLoading = FALSE
    /\ questions \in AnyBatches
    /\ currentQuestionIndex = IF questions = <<>> THEN 0 ELSE Len(questions) - 1
    /\ answers \in AnswersFor(questions)
    /\ timeLeft \in {0, QuestionTimeout}
    /\ results = NULL
    /\ pending = <<>>
    /\ contests = <<>>
    /\ activeContest = NULL
    /\ contestProblems = <<>>
    /\ contestTimeLeft = 120 * 60
    /\ tabSwitches = 0
    /\ currentProblemIndex = 0
    /\ codingSubmissions = NoSubmissions
    /\ focusListeners = FALSE
    /\ codeOutput = NULL
    /\ isRunningCode = FALSE
    /\ alerts = <<>>

NextScore ==
    \/ appState = "testing" /\ HandleSubmitTest
    \/ \E i \in 1..MaxPending, weak \in WeakAreaReplies : SubmitTestResolve(i, weak)
    \/ \E i \in 1..MaxPending : SubmitTestReject(i)

SpecScore == InitScore /\ [][NextScore]_vars

\* The contest session, from a reload with a student signed in and one stored
\* contest (the mount effect reads both from localStorage).
InitContest ==
    /\ isOnline = TRUE
    /\ \E c \in ContestPool :
          Mounted([NoAccounts EXCEPT !["a@x"] = Newcomer], "a@x", <<c>>)

NextContest ==
    \/ \E c \in ContestPool : \E elapsed \in JoinInstants(c) : JoinContest(c, elapsed)
    \/ SubmitContest
    \/ ContestTick
    \/ ContestTimeUp
    \/ AttachListeners
    \/ DetachListeners
    \/ \E hidden \in BOOLEAN : VisibilityChange(hidden)
    \/ Blur
    \/ PreviousProblem
    \/ NextProblem

SpecContest == InitContest /\ [][NextContest]_vars

\* SpecContest with the scheduling the browser gives: the interval fires
\* while it is set and the expiry effect runs after the render with
\* contestTimeLeft 0.
FairContest == WF_vars(ContestTick) /\ WF_vars(ContestTimeUp)

SpecContestFair == SpecContest /\ FairContest

\* The editor and the code runner: a student, two stored contests of one
\* minute with the same problems (the provider numbers them alike), the
\* connection coming and going, the practice IDE next to the contest view.
ContestsIde ==
    {<<[id |-> "c", startTime |-> 0, duration |-> 1, problems |-> Problems(n)],
       [id |-> "d", startTime |-> 0, duration |-> 1, problems |-> Problems(n)]>> :
        n \in 1..MaxProblems}

InitIde ==
    /\ isOnline \in BOOLEAN
    /\ \E list \in ContestsIde :
          Mounted([NoAccounts EXCEPT !["a@x"] = Newcomer], "a@x", list)

NextIde ==
    \/ \E target \in {"practice-ide", "dashboard"} : Navigate(target)
    \/ \E b \in BOOLEAN : SetOnline(b)
    \/ \E i \in 1..Len(contests) : \E elapsed \in JoinInstants(contests[i]) :
          JoinContest(contests[i], elapsed)
    \/ SubmitContest
    \/ ContestTimeUp
    \/ AttachListeners
    \/ DetachListeners
    \/ Blur
    \/ PreviousProblem
    \/ NextProblem
    \/ \E val \in CodeTexts : EditCode(val)
    \/ RunCode
    \/ \E i \in 1..MaxPending, result \in RunReplies : RunCodeResolve(i, result)
    \/ \E i \in 1..MaxPending : RunCodeReject(i)

SpecIde == InitIde /\ [][NextIde]_vars

\* The percentage by itself: one student and one assessment of any batch of
\* 1 to MaxLenPct questions with any raw score, recorded at BEGINNER.
InitPct ==
    /\ isOnline = TRUE
    /\ Mounted([NoAccounts EXCEPT !["a@x"] = Newcomer], "a@x", <<>>)

NextPct ==
    \E total \in 1..MaxLenPct :
        \E score \in 0..total :
            Quota(1) /\ RecordAssessment(difficulty, score, total, <<>>)

SpecPct == InitPct /\ [][NextPct]_vars

\* The two countdowns side by side: one student, a stored contest of one
\* minute with one problem, assessments of one question, no account quota
\* beyond one recorded assessment.
InitTimers ==
    /\ isOnline = TRUE
    /\ Mounted([NoAccounts EXCEPT !["a@x"] = Newcomer], "a@x",
               <<[id |-> "c", startTime |-> 0, duration |-> 1, problems |-> Problems(1)]>>)

NextTimers ==
    \/ \E target \in {"dashboard", "subject-selection", "test-intro"} : Navigate(target)
    \/ Quota(1) /\ StartTest
    \/ \E i \in 1..MaxPending : StartTestResolve(i, Batch(1))
    \/ \E answer \in Picks : AnswerSelect(answer)
    \/ Quota(1) /\ NextQuestion
    \/ Tick
    \/ Quota(1) /\ TimeUp
    \/ \E i \in 1..MaxPending, weak \in WeakAreaReplies : SubmitTestResolve(i, weak)
    \/ \E i \in 1..MaxPending : SubmitTestReject(i)
    \/ \E i \in 1..Len(contests) : \E elapsed \in JoinInstants(contests[i]) :
          JoinContest(contests[i], elapsed)
    \/ SubmitContest
    \/ ContestTick
    \/ ContestTimeUp

SpecTimers == InitTimers /\ [][NextTimers]_vars

(***************************************************************************)
(* Properties of accounts, assessments and progression                     *)
(***************************************************************************)
Rank(level) == IF level = BEGINNER THEN 1 ELSE IF level = ADVANCED THEN 2 ELSE 3

\* The percentages of the account's recorded assessments, newest first.
ScoresOf(u) == [i \in 1..Len(u.attempts) |-> u.attempts[i].score]

NoDuplicates(seq) == \A i, j \in 1..Len(seq) : seq[i] = seq[j] => i = j

BadgeOf(diff) ==
    IF diff = BEGINNER THEN BeginnerChampion
    ELSE IF diff = ADVANCED THEN AdvancedMaster ELSE ExpertLegend

\* C1: the level of an account never decreases and each change moves it
\* exactly one tier up, whatever registrations, logins, logouts and
\* assessments the accounts of the running app go through.
C1_LevelOneTierUp ==
    [][\A e \in Emails :
          (users[e] # NULL /\ users'[e] # NULL) =>
              Rank(users'[e].level) - Rank(users[e].level) \in {0, 1}]_vars

\* Every recorded assessment of the account had at least one question.
NoEmptyBatch(u) == \A i \in 1..Len(u.attempts) : u.attempts[i].totalQuestions > 0

\* round(mean of all recorded percentages)
RoundedMean(u) == RoundDiv(SeqSum(ScoresOf(u)), Len(u.attempts))

\* C2 as stated: after N >= 1 assessments of non-empty batches taken from a
\* fresh account, averageScore is the arithmetic mean of all N percentages,
\* rounded to the nearest integer.
C2_AverageIsRoundedMean ==
    (user # NULL /\ user.totalTests >= 1 /\ NoEmptyBatch(user))
        => user.averageScore = RoundedMean(user)

\* C2 amended: each assessment of a non-empty batch replaces averageScore by
\* round((averageScore * totalTests + percentage) / (totalTests + 1)), computed
\* from the already rounded average; the result is the rounded mean of all
\* percentages for the first two assessments and within one point of the mean
\* for the third.
C2_AverageIncremental ==
    /\ [][(user # NULL /\ user' # NULL /\ user'.totalTests = user.totalTests + 1
           /\ NoEmptyBatch(user'))
          => user'.averageScore =
                RoundDiv(user.averageScore * user.totalTests + user'.attempts[1].score,
                         user.totalTests + 1)]_vars
    /\ []((user # NULL /\ user.totalTests \in 1..2 /\ NoEmptyBatch(user))
            => user.averageScore = RoundedMean(user))
    /\ []((user # NULL /\ user.totalTests = 3 /\ NoEmptyBatch(user))
            => /\ 3 * user.averageScore - SeqSum(ScoresOf(user)) <= 3
               /\ SeqSum(ScoresOf(user)) - 3 * user.averageScore <= 3)

\* C2 witness: three assessments scoring 0, 33 and 100 leave averageScore at
\* 45, while the mean 133 / 3 rounds to 44.
C2_Witness ==
    /\ user # NULL /\ user.totalTests = 3
    /\ ScoresOf(user) = <<100, 33, 0>>
    /\ user.averageScore = 45

\* C5: every submitted assessment, when its gap analysis ends, has produced
\* exactly one attempt and raised totalTests by one in the account that took
\* it, also when the gap analysis failed.
C5_EverySubmissionRecorded ==
    [][\A i \in 1..MaxPending :
          ((\E weak \in WeakAreaReplies : SubmitTestResolve(i, weak)) \/ SubmitTestReject(i))
          /\ pending[i].user # NULL
          => /\ user' # NULL
             /\ user'.totalTests = pending[i].user.totalTests + 1
             /\ Len(user'.attempts) = Len(pending[i].user.attempts) + 1
             /\ users'[user'.email].totalTests = user'.totalTests]_vars

\* C6: a zero-length batch is treated like a failed content generation: the
\* session does not enter Running and the account is not changed.
C6_EmptyBatchRefused ==
    [][\A i \in 1..MaxPending :
          StartTestResolve(i, <<>>) =>
              (appState' # "testing" /\ UNCHANGED <<users, user>>)]_vars

C8_PlacementReadyStays ==
    [][/\ \A e \in Emails :
            (users[e] # NULL /\ users[e].placementReady) => users'[e].placementReady
       /\ (user # NULL /\ user' # NULL /\ user.placementReady) => user'.placementReady]_vars

(***************************************************************************)
(* Properties of the contest session (checked under SpecContest)           *)
(***************************************************************************)
\* The remaining time of contest c at instant e, in milliseconds.
Remaining(c, e) == c.duration * MsPerMinute - e
InWindow(c, e) == e >= 0 /\ e <= c.duration * MsPerMinute

\* C3: within one contest session a submission happens at most once: once
\* the violation counter has reached 3 and the session has been left, no step
\* (a fourth focus loss delivered before the listeners are detached, the
\* countdown, the button) announces a submission again.
C3_SubmitOnce ==
    [][(appState # "contest-active" /\ tabSwitches >= ViolationThreshold)
          => ~Includes(alerts', SubmittedAlert)]_vars

C9_CountdownFloor ==
    [][\A c \in {contests[i] : i \in 1..Len(contests)} : \A e \in JoinInstants(c) :
          (InWindow(c, e) /\ JoinContest(c, e)) =>
              contestTimeLeft' = Remaining(c, e) \div MsPerSecond]_vars

\* C9 amended: on a successful join the countdown is the remaining time
\* rounded to a nearest whole second: it differs from the remaining time by at
\* most half a second.
C9_CountdownNearest ==
    [][\A c \in {contests[i] : i \in 1..Len(contests)} : \A e \in JoinInstants(c) :
          (InWindow(c, e) /\ JoinContest(c, e)) =>
              /\ appState' = "contest-active"
              /\ 2 * (contestTimeLeft' * MsPerSecond - Remaining(c, e)) <= MsPerSecond
              /\ 2 * (Remaining(c, e) - contestTimeLeft' * MsPerSecond) <= MsPerSecond]_vars

\* C9 witness: a session just joined in the last half second of a one-minute
\* contest, whose countdown Math.round starts at 0 or 1.
C9_Witness ==
    /\ appState = "contest-active" /\ activeContest # NULL
    /\ activeContest.duration = 1 /\ contestTimeLeft = 1
    /\ tabSwitches = 0 /\ ~focusListeners /\ alerts = <<>>

\* C10: a join before the start or after start + duration is rejected, and a
\* rejected join changes neither the Application State, the active contest,
\* the countdown, the violation counter nor the problem index.
C10_RejectedJoin ==
    [][\A c \in {contests[i] : i \in 1..Len(contests)} : \A e \in JoinInstants(c) :
          (~InWindow(c, e) /\ JoinContest(c, e)) =>
              /\ alerts' = <<IF e < 0 THEN NotStartedAlert ELSE EndedAlert>>
              /\ UNCHANGED <<appState, activeContest, contestTimeLeft, tabSwitches,
                             currentProblemIndex>>]_vars

\* C10 witness: a join refused as too late, after an earlier session of the
\* same contest left three violations on the counter.
C10_Witness ==
    /\ alerts = <<EndedAlert>> /\ appState = "dashboard"
    /\ activeContest # NULL /\ tabSwitches = 3

\* C11: after any number of assessments the weak-area list of the account, in
\* memory and in the store, has at most 10 entries and no label twice.
C11_WeakAreasBounded ==
    /\ user # NULL =>
          Len(user.weakAreas) <= WeakAreasKept /\ NoDuplicates(user.weakAreas)
    /\ \A e \in Emails : users[e] # NULL =>
          Len(users[e].weakAreas) <= WeakAreasKept /\ NoDuplicates(users[e].weakAreas)

\* C11 witness: a full list after two analyses that named more than ten
\* labels between them, one of them left out.
C11_Witness ==
    /\ user # NULL /\ user.totalTests = 2 /\ Len(user.weakAreas) = WeakAreasKept
    /\ users[user.email].weakAreas = user.weakAreas
    /\ \E i \in 1..Len(user.attempts) : \E k \in 1..Len(user.attempts[i].weakAreas) :
          ~Includes(user.weakAreas, user.attempts[i].weakAreas[k])

\* C12: when an assessment is recorded, every weak area its analysis named
\* (the first 10 distinct ones) is in the account's list afterwards, and the
\* entries of the old list that were dropped are its oldest ones, that is,
\* the old entries still listed are the last ones of the old list.
C12_NewAreasFirst ==
    [][(user # NULL /\ user' # NULL /\ user'.totalTests = user.totalTests + 1) =>
          LET new == Take(Dedupe(user'.attempts[1].weakAreas), WeakAreasKept)
              old == user.weakAreas
              kept == {i \in 1..Len(old) : Includes(user'.weakAreas, old[i])}
          IN /\ \A k \in 1..Len(new) : Includes(user'.weakAreas, new[k])
             /\ \A i \in kept : \A j \in i..Len(old) : j \in kept]_vars

\* C13: after any number of assessments lastScores has at most 5 entries and
\* is ordered newest first: its k-th entry is the percentage of the k-th most
\* recent recorded assessment, in the in-memory account and in the store.
C13_LastScoresNewestFirst ==
    /\ user # NULL =>
          /\ Len(user.lastScores) <= LastScoresKept
          /\ user.lastScores = Take(ScoresOf(user), LastScoresKept)
    /\ \A e \in Emails : users[e] # NULL =>
          /\ Len(users[e].lastScores) <= LastScoresKept
          /\ users[e].lastScores = Take(ScoresOf(users[e]), LastScoresKept)

\* C13 witness: six recorded assessments, the oldest one (100 percent) no
\* longer listed, the five listed ones not all equal.
C13_Witness ==
    /\ user # NULL /\ user.totalTests = 6 /\ Len(user.attempts) = 6
    /\ user.attempts[6].score = PerfectScore
    /\ user.lastScores = <<50, 0, 0, 0, 0>>
    /\ users[user.email].lastScores = user.lastScores

\* The questions of qs whose recorded answer is the correct one.
AnsweredCorrectly(qs, ans) ==
    {i \in 1..Len(qs) : ans[qs[i].id] # NoAnswer /\ ans[qs[i].id] = qs[i].correctAnswer}

\* C14: for every batch and every answer mapping the raw score is the number
\* of questions whose recorded answer equals the correct answer (a question
\* without a recorded answer is not among them), total is the batch length, and
\* the feedback entry of an unanswered question has no selectedAnswer and
\* isCorrect = false.
C14_RawScore ==
    results # NULL =>
        /\ results.score = Cardinality(AnsweredCorrectly(questions, answers))
        /\ results.total = Len(questions)
        /\ Len(results.feedback) = Len(questions)
        /\ \A i \in 1..Len(questions) :
              /\ results.feedback[i].isCorrect <=> i \in AnsweredCorrectly(questions, answers)
              /\ answers[questions[i].id] = NoAnswer =>
                    /\ results.feedback[i].selectedAnswer = NoAnswer
                    /\ ~results.feedback[i].isCorrect

\* C14 witness: the result of a batch of two questions, one answered
\* correctly and one left unanswered.
C14_Witness ==
    /\ results # NULL /\ Len(questions) = 2 /\ results.score = 1
    /\ answers[questions[1].id] = questions[1].correctAnswer
    /\ answers[questions[2].id] = NoAnswer
    /\ ~results.feedback[2].isCorrect

\* C15: when an account with totalTests = 0, averageScore = 0, no badges and
\* level BEGINNER completes an assessment at BEGINNER with every question
\* answered correctly, the account in memory and its stored record have
\* totalTests = 1, averageScore = 100, badges = ["Beginner Champion"] and
\* level ADVANCED.
C15_FirstPerfectAssessment ==
    [][(/\ user # NULL /\ user.totalTests = 0 /\ user.averageScore = 0
        /\ user.badges = <<>> /\ user.level = BEGINNER
        /\ difficulty = BEGINNER
        /\ appState = "testing" /\ appState' = "results"
        /\ questions # <<>>
        /\ \A i \in 1..Len(questions) :
              answers[questions[i].id] = questions[i].correctAnswer)
       => \A u \in {user', users'[user.email]} :
              /\ u # NULL
              /\ u.totalTests = 1 /\ u.averageScore = PerfectScore
              /\ u.badges = <<BeginnerChampion>> /\ u.level = ADVANCED]_vars

\* C15 witness: the results view of a first assessment with every answer
\* correct, taken at BEGINNER by the account just registered.
C15_Witness ==
    /\ appState = "results" /\ results # NULL /\ results.score = results.total
    /\ results.total > 0 /\ difficulty = BEGINNER
    /\ user # NULL /\ user.totalTests = 1 /\ Len(user.attempts) = 1
    /\ user.attempts[1].level = BEGINNER /\ user.attempts[1].score = PerfectScore
    /\ user.badges = <<BeginnerChampion>> /\ user.level = ADVANCED
    /\ users[user.email] = JsonUser(user)

\* C16: start while the app holds itself offline sends no request to the
\* ContentProvider and makes no transition: the requests in flight, the
\* loading flag, the app state, the question list, the index, the answers
\* and the countdown are unchanged; the user is told of the connection.
C16_OfflineStart ==
    [][(~isOnline /\ StartTest) =>
          /\ UNCHANGED <<pending, isLoading, appState, questions, currentQuestionIndex,
                         answers, timeLeft>>
          /\ alerts' = <<OfflineAlert>>]_vars

\* C16 witness: a refused start on the test-intro view, with the batch and
\* the spent countdown of an earlier session still in the state.
C16_Witness ==
    /\ ~isOnline /\ alerts = <<OfflineAlert>> /\ appState = "test-intro"
    /\ pending = <<>> /\ ~isLoading
    /\ questions # <<>> /\ timeLeft = 0

\* C17: every successful start enters the testing state at question index 0
\* with no recorded answer and a countdown of 120 seconds, whatever the
\* previous session left behind; and the expiry condition (testing with a
\* countdown of 0) is only ever entered by the countdown of a running session
\* ticking from 1 to 0, never with a value left over.
C17_FreshStart ==
    [][/\ (\E i \in 1..Len(pending) :
              pending[i].kind = "start" /\ pending' = RemoveAt(pending, i)
              /\ appState' = "testing")
          => /\ currentQuestionIndex' = 0 /\ answers' = NoAnswers
             /\ timeLeft' = QuestionTimeout
       /\ (appState' = "testing" /\ timeLeft' = 0)
          => /\ appState = "testing" /\ timeLeft \in {0, 1}
             /\ UNCHANGED <<questions, currentQuestionIndex>>]_vars

\* C17 witness: a session just started after one whose last question of two
\* timed out, which left index 1 and a countdown of 0 behind.
C17_Witness ==
    /\ appState = "testing" /\ questions # <<>>
    /\ currentQuestionIndex = 0 /\ answers = NoAnswers /\ timeLeft = QuestionTimeout
    /\ results # NULL /\ results.total = 2
    /\ results.feedback[2].selectedAnswer = NoAnswer

\* C18: while testing with a non-empty batch the question index is within
\* 0..len-1 and does not decrease; each advance, by the button or by the
\* countdown at zero, either adds exactly one to the index and sets the
\* countdown to 120 or, on the last question, leaves the testing state for
\* the results of the submission; and an advance by the countdown records no
\* answer: the timed-out question stays as it was, unanswered if it was.
C18_IndexAdvances ==
    /\ [](appState = "testing" /\ questions # <<>> =>
             currentQuestionIndex \in 0..(Len(questions) - 1))
    /\ [][(appState = "testing" /\ questions # <<>>) =>
             /\ appState' = "testing" => currentQuestionIndex' >= currentQuestionIndex
             /\ (NextQuestion \/ TimeUp) =>
                   /\ IF currentQuestionIndex < Len(questions) - 1
                      THEN /\ currentQuestionIndex' = currentQuestionIndex + 1
                           /\ timeLeft' = QuestionTimeout
                           /\ appState' = "testing"
                      ELSE /\ appState' = "results"
                           /\ \/ results' = InitialResults(questions, answers)
                              \/ /\ pending' # <<>>
                                 /\ pending'[Len(pending')].results
                                        = InitialResults(questions, answers)
                   /\ UNCHANGED <<questions, answers>>]_vars

\* C18 witness: the second question of two on screen after the first one
\* timed out unanswered.
C18_Witness ==
    /\ appState = "testing" /\ Len(questions) = 2 /\ currentQuestionIndex = 1
    /\ answers[questions[1].id] = NoAnswer /\ timeLeft = QuestionTimeout

\* C19: while a contest session is active the problem index is within
\* 0..problemCount-1 (0 when the contest has no problem at all), for every
\* contest that can be created, and no navigation step takes it out of that
\* range.
C19_ProblemIndexInRange ==
    appState = "contest-active" =>
        \/ currentProblemIndex \in 0..(Len(contestProblems) - 1)
        \/ contestProblems = <<>> /\ currentProblemIndex = 0

\* C20: a registration with an email that already has an account, a login
\* with a password other than the stored one and a login with an unknown
\* email are refused with an alert and change nothing: the account store, the
\* current-session pointer, the in-memory user and the app state stay as
\* they were.
C20_AuthFailure ==
    [][\A e \in Emails : \A p \in Passwords :
          /\ (users[e] # NULL
               /\ \E r \in Roles : \E code \in AdminCodes : Register(e, p, r, code))
             => /\ UNCHANGED <<users, currentEmail, user, appState>>
                /\ alerts' = <<"User already exists. Please login.">>
          /\ (users[e] # NULL /\ users[e].password # p /\ Login(e, p))
             => /\ UNCHANGED <<users, currentEmail, user, appState>>
                /\ alerts' = <<"Invalid credentials">>
          /\ (users[e] = NULL /\ Login(e, p))
             => /\ UNCHANGED <<users, currentEmail, user, appState>>
                /\ alerts' = <<"User not found. Please register.">>]_vars

\* C20 witness: a login refused for its password on the auth view, the
\* stored account holding one recorded assessment and nobody signed in.
C20_Witness ==
    /\ alerts = <<"Invalid credentials">> /\ appState = "auth"
    /\ currentEmail = "" /\ user = NULL
    /\ \E e \in Emails : users[e] # NULL /\ users[e].totalTests = 1

\* C21: running a sample while offline sends no request to the provider and
\* shows the offline error as the output; and no step of handleRunCode,
\* online or offline, at the click or when the reply arrives, changes the
\* contest session: problem index, countdown, violation counter,
\* submissions, active contest and app state stay as they were.
C21_RunSample ==
    [][/\ (~isOnline /\ RunCode) =>
             /\ codeOutput' = OfflineOutput
             /\ UNCHANGED <<pending, isRunningCode>>
       /\ (\/ RunCode
           \/ \E i \in 1..Len(pending) :
                 \/ RunCodeReject(i)
                 \/ \E result \in RunReplies : RunCodeResolve(i, result))
          => UNCHANGED <<currentProblemIndex, contestTimeLeft, tabSwitches,
                         codingSubmissions, activeContest, contestProblems,
                         appState>>]_vars

\* C21 witness: the offline error on screen in an active contest session at
\* its second problem, with code typed in and one violation counted.
C21_Witness ==
    /\ appState = "contest-active" /\ ~isOnline /\ codeOutput = OfflineOutput
    /\ pending = <<>> /\ ~isRunningCode
    /\ currentProblemIndex = 1 /\ tabSwitches = 1
    /\ codingSubmissions[contestProblems[2].id] = "code"

\* The tier a badge belongs to.
TierOf(badge) ==
    IF badge = BeginnerChampion THEN BEGINNER
    ELSE IF badge = AdvancedMaster THEN ADVANCED ELSE EXPERT

\* C22: in every reachable state an account with placementReady, in memory
\* or in the store, has level EXPERT; and a step that adds a badge to a stored
\* account adds it to an account whose own level was the badge's tier.
C22_BadgeAtOwnTier ==
    /\ [](/\ user # NULL => (user.placementReady => user.level = EXPERT)
          /\ \A e \in Emails : users[e] # NULL =>
                (users[e].placementReady => users[e].level = EXPERT))
    /\ [][\A e \in Emails : (users[e] # NULL /\ users'[e] # NULL) =>
             \A k \in 1..Len(users'[e].badges) :
                 ~Includes(users[e].badges, users'[e].badges[k]) =>
                     users[e].level = TierOf(users'[e].badges[k])]_vars

\* C23: for every batch of total >= 1 questions and every raw score in
\* 0..total, the percentage the progression update works with is 100 exactly
\* when score = total, and a badge is granted only when score = total.
C23_PerfectIffAllCorrect ==
    [][(user # NULL /\ user' # NULL /\ Len(user'.attempts) = Len(user.attempts) + 1) =>
          LET total == user'.attempts[1].totalQuestions IN
          \A score \in 0..total :
              RecordAssessment(difficulty, score, total, <<>>) =>
                  /\ user'.attempts[1].score = PerfectScore <=> score = total
                  /\ user'.badges # user.badges => score = total]_vars

\* The attempt history of an account is numbered totalTests, .., 1 from the
\* newest entry to the oldest, and the three tier counters add up to
\* totalTests.
AttemptsConsistent(u) ==
    /\ Len(u.attempts) = u.totalTests
    /\ \A k \in 1..Len(u.attempts) : u.attempts[k].attemptNumber = u.totalTests - k + 1
    /\ u.totalTests = u.beginnerAttempts + u.advancedAttempts + u.expertAttempts

\* C24: in every reachable state every account, in memory and in the store,
\* has exactly totalTests attempts, numbered totalTests, totalTests - 1, .., 1
\* from newest to oldest, and totalTests = beginnerAttempts +
\* advancedAttempts + expertAttempts.
C24_AttemptHistory ==
    /\ user # NULL => AttemptsConsistent(user)
    /\ \A e \in Emails : users[e] # NULL => AttemptsConsistent(users[e])

\* C24 witness: an account with two recorded assessments, one at BEGINNER and
\* then one at ADVANCED.
C24_Witness ==
    /\ user # NULL /\ user.totalTests = 2
    /\ user.beginnerAttempts = 1 /\ user.advancedAttempts = 1
    /\ user.attempts[1].level = ADVANCED /\ user.attempts[2].level = BEGINNER
    /\ users[user.email] = JsonUser(user)

\* C25: selecting an option records it for the id of the current question,
\* whatever was recorded before (the last selection wins); selecting the
\* option already recorded leaves the mapping as it is; the mapping holds one
\* option or none per question id; and the entries of all other ids, the
\* question list, the index, the countdown and the app state are unchanged.
C25_SelectAnswer ==
    /\ [](answers \in [QuestionIds -> Options \cup {NoAnswer}])
    /\ [][\A a \in Picks : AnswerSelect(a) =>
             /\ answers'[CurrentQuestion.id] = a
             /\ \A id \in QuestionIds \ {CurrentQuestion.id} : answers'[id] = answers[id]
             /\ answers[CurrentQuestion.id] = a => answers' = answers
             /\ UNCHANGED <<questions, currentQuestionIndex, timeLeft, appState>>]_vars

\* C25 witness: on the second question of two, with the countdown running,
\* both questions answered, each with a different option.
C25_Witness ==
    /\ appState = "testing" /\ Len(questions) = 2 /\ currentQuestionIndex = 1
    /\ answers[questions[1].id] = "B" /\ answers[questions[2].id] = "A"
    /\ timeLeft < QuestionTimeout

\* C26: with the interval ticking and the provider answering, every session
\* that enters the testing state, whatever the length of its batch (0
\* included) and whether or not the user answers or presses next, leads to
\* the results view with the results set and the loading flag cleared.
C26_SessionCompletes ==
    (appState = "testing") ~> (appState = "results" /\ results # NULL /\ ~isLoading)

\* C26 witness: the completed results of a batch of two questions of which
\* none was answered.
C26_Witness ==
    /\ appState = "results" /\ results # NULL /\ ~isLoading /\ pending = <<>>
    /\ results.total = 2
    /\ \A k \in 1..2 : results.feedback[k].selectedAnswer = NoAnswer

\* C27: with the interval ticking, every contest session that becomes active
\* leads to its submission (the dashboard, with the submission alert), with
\* or without user action, for every countdown a successful join produces,
\* the 0 of a join at the very end of the window included.
C27_ContestSubmits ==
    (appState = "contest-active")
        ~> (appState = "dashboard" /\ Includes(alerts, SubmittedAlert))

\* C27 witness: a one-minute contest submitted at countdown 0 with no
\* violation counted.
C27_Witness ==
    /\ appState = "dashboard" /\ alerts = <<SubmittedAlert>>
    /\ activeContest # NULL /\ activeContest.duration = 1
    /\ contestTimeLeft = 0 /\ tabSwitches = 0

\* C28: a question-batch response that arrives when the app is no longer on
\* the test-intro view that requested it is discarded: the app state, the
\* question list, the index, the answers and the countdown stay as they are.
C28_LateBatchDiscarded ==
    [][(/\ appState # "test-intro"
        /\ \E i \in 1..Len(pending) :
              pending[i].kind = "start" /\ pending' = RemoveAt(pending, i))
       => UNCHANGED <<appState, questions, currentQuestionIndex, answers,
                      timeLeft>>]_vars

C30_TransientSession ==
    [][(appState = "dashboard" /\ appState' = "contest-active")
       => /\ tabSwitches' = 0
          /\ currentProblemIndex' = 0
          /\ codingSubmissions' = NoSubmissions]_vars

====
